---- MODULE Spec2Model ----
(***************************************************************************)
(* Model of jnc (japanese-numbers-converter): ja_to_arabic, validate and   *)
(* parse of src/jnc/__init__.py.                                           *)
(*                                                                         *)
(* Characters are written in ASCII.  The kanji digits (U+3007, U+4E00 ..)  *)
(* are "k0" .. "k9"; the units are "cho" (10^12), "oku" (10^8), "man"      *)
(* (10^4), "sen" (1000), "hyaku" (100), "ju" (10); the daiji characters    *)
(* are "daiji0", "daiji1", "daiji2", "daiji3", "daiji10"; "LF" is the      *)
(* newline character and "other" is any character that is neither a        *)
(* numeral character nor a newline.  A string is a sequence of characters. *)
(*                                                                         *)
(* Python integers are unbounded; an integer is modelled as the sequence   *)
(* of its decimal digits, most significant first, without leading zeros    *)
(* (0 is the empty sequence).                                              *)
(***************************************************************************)
EXTENDS Integers, Sequences, FiniteSets, TLC

VARIABLES
    arg,                \* the argument of the call: [isStr, val]
    enable_validation,  \* option of the call
    accept_daiji,       \* option of the call
    s,                  \* the local variable s of ja_to_arabic
    pc,                 \* position inside ja_to_arabic
    stack,              \* the call stack of parse: frames [s, index, at, acc]
    ret,                \* the value the last finished parse call returned
    outcome,            \* how the call ended: [kind, msg, value]
    ran,                \* the stages that have run, in order
    splits,             \* the unit decompositions parse has completed
    prev,               \* the outcome of the caller's previous call
    expected            \* the caller's reference value for arg

vars == <<arg, enable_validation, accept_daiji, s, pc, stack, ret, outcome,
          ran, splits, prev, expected>>

(***************************************************************************)
(* Bounds of the model.                                                    *)
(***************************************************************************)
MaxLen == 3
MaxNumeralLen == 4
MaxHead == 2
MaxWideLen == 6
MaxParseLen == 3
MaxConvLen == 6

(***************************************************************************)
(* Unbounded non-negative integers as decimal digit sequences.             *)
(***************************************************************************)
Zeros(n) == [i \in 1..n |-> 0]

RECURSIVE Strip(_)
Strip(x) == IF x # <<>> /\ x[1] = 0 THEN Strip(Tail(x)) ELSE x

RECURSIVE AddDigits(_, _, _)
AddDigits(a, b, carry) ==
    IF a = <<>>
    THEN <<carry>>
    ELSE LET n == Len(a)
             t == a[n] + b[n] + carry
         IN  Append(AddDigits(SubSeq(a, 1, n - 1), SubSeq(b, 1, n - 1), t \div 10),
                    t % 10)

Max(a, b) == IF a >= b THEN a ELSE b

Add(a, b) ==
    LET n == Max(Len(a), Len(b))
    IN  Strip(AddDigits(Zeros(n - Len(a)) \o a, Zeros(n - Len(b)) \o b, 0))

Pow10(k) == <<1>> \o Zeros(k)

\* x * 10^k
MulPow10(x, k) == IF x = <<>> THEN <<>> ELSE x \o Zeros(k)

RECURSIVE LexLeq(_, _)
LexLeq(a, b) ==
    \/ a = <<>>
    \/ a[1] < b[1]
    \/ a[1] = b[1] /\ LexLeq(Tail(a), Tail(b))

Leq(a, b) == Len(a) < Len(b) \/ (Len(a) = Len(b) /\ LexLeq(a, b))

(***************************************************************************)
(* The tables of the module.                                               *)
(***************************************************************************)
\* UNITS with cho taken for 10^16.
UNITS_ChoAsKei ==
    << [unit_str |-> "cho",   exp |-> 16],
       [unit_str |-> "oku",   exp |-> 8],
       [unit_str |-> "man",   exp |-> 4],
       [unit_str |-> "sen",   exp |-> 3],
       [unit_str |-> "hyaku", exp |-> 2],
       [unit_str |-> "ju",    exp |-> 1] >>

\* UNITS: (character, power of ten), in descending magnitude.
UNITS == << [unit_str |-> "cho",   exp |-> 12],
            [unit_str |-> "oku",   exp |-> 8],
            [unit_str |-> "man",   exp |-> 4],
            [unit_str |-> "sen",   exp |-> 3],
            [unit_str |-> "hyaku", exp |-> 2],
            [unit_str |-> "ju",    exp |-> 1] >>

JAPANESE_DIGITS ==
    [c \in {"k0", "k1", "k2", "k3", "k4", "k5", "k6", "k7", "k8", "k9"} |->
        CASE c = "k0" -> 0 [] c = "k1" -> 1 [] c = "k2" -> 2 [] c = "k3" -> 3
          [] c = "k4" -> 4 [] c = "k5" -> 5 [] c = "k6" -> 6 [] c = "k7" -> 7
          [] c = "k8" -> 8 [] c = "k9" -> 9]

DAIJI_TRANS ==
    [c \in {"daiji0", "daiji1", "daiji2", "daiji3", "daiji10"} |->
        CASE c = "daiji0" -> "k0" [] c = "daiji1" -> "k1" [] c = "daiji2" -> "k2"
          [] c = "daiji3" -> "k3" [] c = "daiji10" -> "ju"]

UNIT_CHARS == {UNITS[i].unit_str : i \in 1..Len(UNITS)}
JAPANESE_DIGIT_CHARS == DOMAIN JAPANESE_DIGITS
SUPPORTED_CHARS == UNIT_CHARS \cup JAPANESE_DIGIT_CHARS

\* The character classes the regular expressions of validate spell out.
MYRIAD_CHARS == {"man", "oku", "cho"}
PLACE_CHARS == {"ju", "hyaku", "sen"}

\* len(s) > 32
LENGTH_LIMIT == 32

(***************************************************************************)
(* Regular expressions.  The pattern ^[class]+$ is used with re.match and  *)
(* without re.MULTILINE: $ matches at the end of the string and also just  *)
(* before a newline that is the last character of the string.              *)
(***************************************************************************)
AllIn(str, class) == \A i \in 1..Len(str) : str[i] \in class

MatchesClassPlus(str, class) ==
    \/ Len(str) >= 1 /\ AllIn(str, class)
    \/ /\ Len(str) >= 2
       /\ str[Len(str)] = "LF"
       /\ AllIn(SubSeq(str, 1, Len(str) - 1), class)

\* SUPPORTED_REGEX.match(s)
SUPPORTED_REGEX(str) == MatchesClassPlus(str, SUPPORTED_CHARS)

(***************************************************************************)
(* validate: the first rule that rejects the string, or "ok".              *)
(***************************************************************************)
\* re.search(r"k1[hyaku ju]", s)
RedundantOne(str) ==
    \E i \in 1..(Len(str) - 1) : str[i] = "k1" /\ str[i + 1] \in {"hyaku", "ju"}

\* re.search(r"([^digits]|^)sen[man oku cho]", s)
BareThousand(str) ==
    \E i \in 1..(Len(str) - 1) :
        /\ str[i] = "sen"
        /\ str[i + 1] \in MYRIAD_CHARS
        /\ (i = 1 \/ str[i - 1] \notin JAPANESE_DIGIT_CHARS)

\* re.search(r"[digits]{2,}[ju hyaku sen]", s)
ManyDigitsPlace(str) ==
    \E i \in 1..(Len(str) - 2) :
        /\ str[i] \in JAPANESE_DIGIT_CHARS
        /\ str[i + 1] \in JAPANESE_DIGIT_CHARS
        /\ str[i + 2] \in PLACE_CHARS

\* MyriadAdjacent without the alternative for the first character.
MyriadAdjacentOnly(str) ==
    \E i \in 1..(Len(str) - 1) : str[i] \in MYRIAD_CHARS /\ str[i + 1] \in MYRIAD_CHARS

\* re.search(r"([man oku cho]{2,}|^[man oku cho])", s)
MyriadAdjacent(str) ==
    \/ \E i \in 1..(Len(str) - 1) : str[i] \in MYRIAD_CHARS /\ str[i + 1] \in MYRIAD_CHARS
    \/ Len(str) >= 1 /\ str[1] \in MYRIAD_CHARS

validate(str) ==
    IF str = <<>> THEN "Empty string"
    ELSE IF RedundantOne(str) THEN "redundant one"
    ELSE IF BareThousand(str) THEN "bare thousand"
    ELSE IF ManyDigitsPlace(str) THEN "more than one digit"
    ELSE IF MyriadAdjacent(str) THEN "myriad adjacent or first"
    ELSE "ok"

\* s.translate(DAIJI_TRANS)
translate(str) ==
    [i \in 1..Len(str) |->
        IF str[i] \in DOMAIN DAIJI_TRANS THEN DAIJI_TRANS[str[i]] ELSE str[i]]

(***************************************************************************)
(* parse, one call frame at a time.                                        *)
(***************************************************************************)
\* s.split(unit_str)
RECURSIVE split(_, _)
split(str, u) ==
    IF \A i \in 1..Len(str) : str[i] # u
    THEN <<str>>
    ELSE LET i == CHOOSE j \in 1..Len(str) :
                      str[j] = u /\ \A k \in 1..(j - 1) : str[k] # u
         IN  <<SubSeq(str, 1, i - 1)>> \o split(SubSeq(str, i + 1, Len(str)), u)

\* StartsWithZero applied only to strings longer than one character.
StartsWithZeroLong(str) == Len(str) > 1 /\ str[1] = "k0"

\* StartsWithZero with endswith for startswith.
EndsWithZero(str) == Len(str) >= 1 /\ str[Len(str)] = "k0"

\* s.startswith(k0), at index >= len(UNITS)
StartsWithZero(str) == Len(str) >= 1 /\ str[1] = "k0"

\* int("".join(str(JAPANESE_DIGITS[c]) for c in s))
DigitsToInt(str) == Strip([i \in 1..Len(str) |-> JAPANESE_DIGITS[str[i]]])

\* CoefficientIndex with every coefficient parsed as digits only.
CoefficientIndexDigitsOnly(unit_str) == 6

\* CoefficientIndex with every coefficient parsed from sen.
CoefficientIndexFromSen(unit_str) == 3

\* The index the coefficient in front of a unit is parsed from.
CoefficientIndex(unit_str) ==
    IF unit_str \in {"cho", "oku", "man"} THEN 3 ELSE Len(UNITS)

\* The index the remainder after a unit, or a string without it, is parsed from.
NextIndex(index) == index + 1

Frame(str, index) == [s |-> str, index |-> index, at |-> "body", acc |-> <<>>]

NoRet == [has |-> FALSE, val |-> <<>>]
Returned(v) == [has |-> TRUE, val |-> v]

NoOutcome == [kind |-> "none", msg |-> "", value |-> <<>>]
Value(v) == [kind |-> "value", msg |-> "", value |-> v]
Raised(kind, msg) == [kind |-> kind, msg |-> msg, value |-> <<>>]

Top == stack[Len(stack)]
Pop == SubSeq(stack, 1, Len(stack) - 1)
SetTop(f) == [stack EXCEPT ![Len(stack)] = f]

\* What the body of parse(s, index) does up to its first recursive call:
\* [do |-> "return", val], [do |-> "raise", kind, msg] or
\* [do |-> "call", at, acc, s, index].
Body(str, index) ==
    IF Len(str) = 0 THEN [do |-> "return", val |-> <<>>]
    ELSE IF index >= Len(UNITS) THEN
        IF StartsWithZero(str)
        THEN [do |-> "raise", kind |-> "ParseError", msg |-> "leading zero"]
        ELSE IF ~MatchesClassPlus(str, JAPANESE_DIGIT_CHARS)
        THEN [do |-> "raise", kind |-> "ParseError", msg |-> "unit among digits"]
        ELSE IF \E i \in 1..Len(str) : str[i] \notin DOMAIN JAPANESE_DIGITS
        THEN [do |-> "raise", kind |-> "KeyError", msg |-> "JAPANESE_DIGITS[c]"]
        ELSE [do |-> "return", val |-> DigitsToInt(str)]
    ELSE
        LET unit_str == UNITS[index + 1].unit_str
            splitted == split(str, unit_str)
        IN  IF Len(splitted) = 1
            THEN [do |-> "call", at |-> "tail", acc |-> <<>>,
                  s |-> splitted[1], index |-> NextIndex(index)]
            ELSE IF Len(splitted) = 2
            THEN IF splitted[1] = <<>>
                 THEN [do |-> "call", at |-> "right",
                       acc |-> Pow10(UNITS[index + 1].exp),
                       s |-> splitted[2], index |-> NextIndex(index)]
                 ELSE [do |-> "call", at |-> "left", acc |-> <<>>,
                       s |-> splitted[1], index |-> CoefficientIndex(unit_str)]
            ELSE [do |-> "raise", kind |-> "ParseError", msg |-> "repeated unit"]

\* A call of parse runs its body up to the first recursive call, return or raise.
ParseBody ==
    /\ pc = "in_parse"
    /\ stack # <<>>
    /\ Top.at = "body"
    /\ LET b == Body(Top.s, Top.index)
       IN  IF b.do = "return"
           THEN /\ stack' = Pop
                /\ ret' = Returned(b.val)
                /\ UNCHANGED <<pc, outcome>>
           ELSE IF b.do = "raise"
           THEN /\ stack' = <<>>
                /\ ret' = NoRet
                /\ pc' = "done"
                /\ outcome' = Raised(b.kind, b.msg)
           ELSE /\ stack' = Append(SetTop([Top EXCEPT !.at = b.at, !.acc = b.acc]),
                                   Frame(b.s, b.index))
                /\ ret' = NoRet
                /\ UNCHANGED <<pc, outcome>>
    /\ UNCHANGED <<arg, enable_validation, accept_daiji, s, ran, splits, prev, expected>>

\* A recursive call has returned to the frame that made it.
ParseResume ==
    /\ pc = "in_parse"
    /\ stack # <<>>
    /\ Top.at # "body"
    /\ ret.has
    /\ LET unit == UNITS[Top.index + 1]
           parts == split(Top.s, unit.unit_str)
       IN  IF Top.at = "tail"
           THEN \* return parse(splitted[0], index + 1)
                /\ stack' = Pop
                /\ UNCHANGED <<ret, splits>>
           ELSE IF Top.at = "left"
           THEN \* unit_number * parse(splitted[0], ...) + parse(splitted[1], index + 1)
                /\ stack' = Append(SetTop([Top EXCEPT !.at = "right",
                                                      !.acc = MulPow10(ret.val, unit.exp)]),
                                   Frame(parts[2], NextIndex(Top.index)))
                /\ ret' = NoRet
                /\ UNCHANGED splits
           ELSE /\ stack' = Pop
                /\ ret' = Returned(Add(Top.acc, ret.val))
                /\ splits' = Append(splits, [unit_str |-> unit.unit_str,
                                             left |-> parts[1],
                                             product |-> Top.acc,
                                             rest |-> ret.val])
    /\ UNCHANGED <<arg, enable_validation, accept_daiji, s, pc, outcome, ran, prev, expected>>

(***************************************************************************)
(* ja_to_arabic, one stage at a time.                                      *)
(***************************************************************************)
Stage(name) == ran' = Append(ran, name)

Finish(o) ==
    /\ pc' = "done"
    /\ outcome' = o

\* if not isinstance(s, str): raise TypeError
TypeCheck ==
    /\ pc = "type_check"
    /\ Stage("type_check")
    /\ IF ~arg.isStr
       THEN Finish(Raised("TypeError", "not string"))
       ELSE pc' = "zero_case" /\ UNCHANGED outcome
    /\ UNCHANGED <<arg, enable_validation, accept_daiji, s, stack, ret, splits, prev, expected>>

\* if len(s) == 1 and s == k0: return 0
ZeroCase ==
    /\ pc = "zero_case"
    /\ Stage("zero_case")
    /\ IF Len(s) = 1 /\ s = <<"k0">>
       THEN Finish(Value(<<>>))
       ELSE pc' = "length_check" /\ UNCHANGED outcome
    /\ UNCHANGED <<arg, enable_validation, accept_daiji, s, stack, ret, splits, prev, expected>>

\* LengthCheck with the validation placed in front of it.
LengthCheckAfterValidation ==
    /\ pc = "length_check"
    /\ Stage("length_check")
    /\ IF enable_validation /\ validate(s) # "ok"
       THEN Finish(Raised("ValidationError", validate(s)))
       ELSE IF Len(s) > LENGTH_LIMIT
       THEN Finish(Raised("NotSupportedError", "too long"))
       ELSE pc' = "validation" /\ UNCHANGED outcome
    /\ UNCHANGED <<arg, enable_validation, accept_daiji, s, stack, ret, splits, prev, expected>>

\* if len(s) > 32: raise NotSupportedError
LengthCheck ==
    /\ pc = "length_check"
    /\ Stage("length_check")
    /\ IF Len(s) > LENGTH_LIMIT
       THEN Finish(Raised("NotSupportedError", "too long"))
       ELSE pc' = "validation" /\ UNCHANGED outcome
    /\ UNCHANGED <<arg, enable_validation, accept_daiji, s, stack, ret, splits, prev, expected>>

\* if enable_validation: validate(s)
Validation ==
    /\ pc = "validation"
    /\ IF enable_validation
       THEN /\ Stage("validate")
            /\ IF validate(s) # "ok"
               THEN Finish(Raised("ValidationError", validate(s)))
               ELSE pc' = "daiji" /\ UNCHANGED outcome
       ELSE pc' = "daiji" /\ UNCHANGED <<outcome, ran>>
    /\ UNCHANGED <<arg, enable_validation, accept_daiji, s, stack, ret, splits, prev, expected>>

\* if accept_daiji: s = s.translate(DAIJI_TRANS)
Daiji ==
    /\ pc = "daiji"
    /\ IF accept_daiji
       THEN Stage("translate") /\ s' = translate(s)
       ELSE UNCHANGED <<s, ran>>
    /\ pc' = "supported_check"
    /\ UNCHANGED <<arg, enable_validation, accept_daiji, stack, ret, outcome, splits, prev, expected>>

\* if not SUPPORTED_REGEX.match(s): raise NotSupportedError
SupportedCheck ==
    /\ pc = "supported_check"
    /\ Stage("supported_check")
    /\ IF ~SUPPORTED_REGEX(s)
       THEN Finish(Raised("NotSupportedError", "unsupported characters"))
       ELSE pc' = "call_parse" /\ UNCHANGED outcome
    /\ UNCHANGED <<arg, enable_validation, accept_daiji, s, stack, ret, splits, prev, expected>>

\* return parse(s): the call
CallParse ==
    /\ pc = "call_parse"
    /\ Stage("parse")
    /\ stack' = <<Frame(s, 0)>>
    /\ ret' = NoRet
    /\ pc' = "in_parse"
    /\ UNCHANGED <<arg, enable_validation, accept_daiji, s, outcome, splits, prev, expected>>

\* return parse(s): the outermost call of parse has returned
Return ==
    /\ pc = "in_parse"
    /\ stack = <<>>
    /\ ret.has
    /\ Finish(Value(ret.val))
    /\ UNCHANGED <<arg, enable_validation, accept_daiji, s, stack, ret, ran, splits, prev, expected>>

(***************************************************************************)
(* The calls the model makes.                                              *)
(***************************************************************************)
\* The characters inputs are drawn from.
InputChars == {"k0", "k1", "k2", "cho", "oku", "man", "sen", "hyaku", "ju",
               "daiji0", "daiji1", "daiji10", "LF", "other"}

\* Digit and unit characters only: longer numerals.
NumeralChars == {"k0", "k1", "k2", "cho", "oku", "man", "sen", "hyaku", "ju"}

\* The largest digit with the largest place and unit: the largest values.
WideChars == {"k9", "sen", "cho"}

StringsUpTo(chars, n) == UNION {[1..k -> chars] : k \in 0..n}

Fill(c, n) == [i \in 1..n |-> c]

\* A short head followed by one repeated digit, at and just over the length limit.
LongStrings ==
    {h \o Fill("k2", n - Len(h)) :
        h \in StringsUpTo({"k1", "k2", "ju", "man", "other"}, MaxHead),
        n \in {LENGTH_LIMIT, LENGTH_LIMIT + 1}}

Inputs ==
    StringsUpTo(InputChars, MaxLen) \cup StringsUpTo(NumeralChars, MaxNumeralLen)
        \cup StringsUpTo(WideChars, MaxWideLen) \cup LongStrings

Str(v) == [isStr |-> TRUE, val |-> v]
\* An argument that is not a string (None, an int, ...).
NotStr == [isStr |-> FALSE, val |-> <<>>]

\* The state at the start of ja_to_arabic(a, ev, ad).
Begin(a, ev, ad) ==
    /\ arg = a
    /\ enable_validation = ev
    /\ accept_daiji = ad
    /\ s = a.val
    /\ pc = "type_check"
    /\ stack = <<>>
    /\ ret = NoRet
    /\ outcome = NoOutcome
    /\ ran = <<>>
    /\ splits = <<>>

Init ==
    /\ \E a \in {Str(v) : v \in Inputs} \cup {NotStr}, ev \in BOOLEAN, ad \in BOOLEAN :
          Begin(a, ev, ad)
    /\ prev = NoOutcome
    /\ expected = NoRet

Next ==
    \/ TypeCheck
    \/ ZeroCase
    \/ LengthCheck
    \/ Validation
    \/ Daiji
    \/ SupportedCheck
    \/ CallParse
    \/ ParseBody
    \/ ParseResume
    \/ Return

Spec == Init /\ [][Next]_vars

(***************************************************************************)
(* The caller of test_valid_cases: conventionally written numerals with    *)
(* their reference values, converted with the default options.             *)
(***************************************************************************)
\* The digits a conventional numeral is written with here (k2 stands for 2..9).
ConvDigits == {"k1", "k2"}

Numeral(str, val) == [str |-> str, val |-> val]

\* digit + unit, the unit alone (digit 1 omitted), or nothing; k1 only where allowed.
PlaceForms(unit_str, one_allowed) ==
    {Numeral(<<>>, 0), Numeral(<<unit_str>>, 1)}
        \cup {Numeral(<<d, unit_str>>, JAPANESE_DIGITS[d]) :
                d \in {c \in ConvDigits : c # "k1" \/ one_allowed}}

OnesForms == {Numeral(<<>>, 0)} \cup {Numeral(<<d>>, JAPANESE_DIGITS[d]) : d \in ConvDigits}

\* The sen/hyaku/ju forms: the value is the sum of digit x place.
UnitForms ==
    {Numeral(a.str \o b.str \o c.str \o d.str, Strip(<<a.val, b.val, c.val, d.val>>)) :
        a \in PlaceForms("sen", TRUE), b \in PlaceForms("hyaku", FALSE),
        c \in PlaceForms("ju", FALSE), d \in OnesForms} \ {Numeral(<<>>, <<>>)}

\* Positional runs of digits that do not start with k0.
PositionalRuns ==
    {Numeral(r, [i \in 1..Len(r) |-> JAPANESE_DIGITS[r[i]]]) :
        r \in {q \in StringsUpTo(ConvDigits \cup {"k0"}, MaxConvLen) :
                 q # <<>> /\ q[1] # "k0"}}

Groups == {g \in UnitForms \cup PositionalRuns : Len(g.str) <= MaxConvLen}

\* A coefficient of man/oku/cho: sen alone is written k1 sen there.
Coefficients == {g \in Groups : g.str # <<"sen">>}

\* The numerals of ns, and those followed by one more coefficient + unit.
WithPart(ns, unit_str, exp) ==
    ns \cup UNION {
        {Numeral(n.str \o g.str \o <<unit_str>>, Add(n.val, MulPow10(g.val, exp))) :
            g \in {c \in Coefficients : Len(n.str) + Len(c.str) + 1 <= MaxConvLen}} :
        n \in ns}

WithFinal(ns) ==
    ns \cup UNION {
        {Numeral(n.str \o g.str, Add(n.val, g.val)) :
            g \in {c \in Groups : Len(n.str) + Len(c.str) <= MaxConvLen}} :
        n \in ns}

ConvNumerals ==
    WithFinal(WithPart(WithPart(WithPart({Numeral(<<>>, <<>>)}, "cho", 12), "oku", 8),
                       "man", 4)) \ {Numeral(<<>>, <<>>)}

InitConv ==
    /\ \E n \in ConvNumerals :
          /\ Begin(Str(n.str), TRUE, TRUE)
          /\ expected = Returned(n.val)
    /\ prev = NoOutcome

SpecConv == InitConv /\ [][Next]_vars

(***************************************************************************)
(* parse called on its own, from any index.                                *)
(***************************************************************************)
ParseChars == NumeralChars \cup {"LF"}

InitParse ==
    /\ \E str \in StringsUpTo(ParseChars, MaxParseLen), index \in 0..Len(UNITS) :
          /\ arg = Str(str)
          /\ s = str
          /\ stack = <<Frame(str, index)>>
    /\ enable_validation = FALSE
    /\ accept_daiji = FALSE
    /\ pc = "in_parse"
    /\ ret = NoRet
    /\ outcome = NoOutcome
    /\ ran = <<>>
    /\ splits = <<>>
    /\ prev = NoOutcome
    /\ expected = NoRet

NextParse ==
    \/ ParseBody
    \/ ParseResume
    \/ Return

\* A Python call that is running takes its next step.
SpecParse == InitParse /\ [][NextParse]_vars /\ WF_vars(NextParse)

(***************************************************************************)
(* A caller that converts a numeral written with daiji, and then the same  *)
(* numeral in its standard spelling, with both options enabled.            *)
(***************************************************************************)
CallStandard ==
    /\ pc = "done"
    /\ arg.isStr
    /\ enable_validation /\ accept_daiji
    /\ prev = NoOutcome
    /\ translate(arg.val) # arg.val
    /\ prev' = outcome
    /\ arg' = Str(translate(arg.val))
    /\ s' = translate(arg.val)
    /\ pc' = "type_check"
    /\ stack' = <<>>
    /\ ret' = NoRet
    /\ outcome' = NoOutcome
    /\ ran' = <<>>
    /\ splits' = <<>>
    /\ UNCHANGED <<enable_validation, accept_daiji, expected>>

NextDaiji == Next \/ CallStandard

SpecDaiji == Init /\ [][NextDaiji]_vars

(***************************************************************************)
(* Properties.                                                             *)
(***************************************************************************)
Range(seq) == {seq[i] : i \in 1..Len(seq)}

Done == pc = "done"

\* The string after the daiji substitution, when it is enabled.
Sub == IF accept_daiji THEN translate(arg.val) ELSE arg.val

\* 2^63 - 1
INT64_MAX == <<9, 2, 2, 3, 3, 7, 2, 0, 3, 6, 8, 5, 4, 7, 7, 5, 8, 0, 7>>

C2_OnlyDocumentedFailures ==
    Done =>
        /\ outcome.kind \in {"value", "TypeError", "NotSupportedError",
                             "ValidationError", "ParseError"}
        /\ ( /\ arg.isStr
             /\ Len(arg.val) <= LENGTH_LIMIT
             /\ "supported_check" \in Range(ran)
             /\ ~AllIn(s, SUPPORTED_CHARS) )
           => (outcome.kind = "NotSupportedError" /\ "parse" \notin Range(ran))

\* The stages of ja_to_arabic in their order.
StageOrder == <<"type_check", "zero_case", "length_check", "validate", "translate",
                "supported_check", "parse">>

StagePosition(name) == CHOOSE i \in 1..Len(StageOrder) : StageOrder[i] = name

\* The stages that run when none before the named one fails.
StagesUpTo(name) ==
    SelectSeq(SubSeq(StageOrder, 1, StagePosition(name)),
              LAMBDA st : /\ (st = "validate" => enable_validation)
                          /\ (st = "translate" => accept_daiji))

\* C3: the stages run in the order type check, single k0, length, validation
\* (if enabled, on the raw string), substitution (if enabled), supported
\* characters, parse; the call ends with the failure of the first stage that
\* fails and no later stage runs.  A string over 32 characters raises
\* NotSupportedError even if it breaks a validation rule, a string that breaks a
\* validation rule raises ValidationError even if it has unsupported
\* characters, and the empty string raises ValidationError with validation
\* enabled and NotSupportedError with it disabled.
C3_StageOrder ==
    /\ \A i, j \in 1..Len(ran) : i < j => StagePosition(ran[i]) < StagePosition(ran[j])
    /\ Done =>
         IF ~arg.isStr
         THEN outcome.kind = "TypeError" /\ ran = StagesUpTo("type_check")
         ELSE IF arg.val = <<"k0">>
         THEN outcome = Value(<<>>) /\ ran = StagesUpTo("zero_case")
         ELSE IF Len(arg.val) > LENGTH_LIMIT
         THEN outcome.kind = "NotSupportedError" /\ ran = StagesUpTo("length_check")
         ELSE IF enable_validation /\ validate(arg.val) # "ok"
         THEN outcome.kind = "ValidationError" /\ ran = StagesUpTo("validate")
         ELSE IF ~SUPPORTED_REGEX(Sub)
         THEN outcome.kind = "NotSupportedError" /\ ran = StagesUpTo("supported_check")
         ELSE ran = StagesUpTo("parse")
    /\ (Done /\ arg.isStr /\ arg.val = <<>>) =>
         outcome.kind = IF enable_validation THEN "ValidationError"
                        ELSE "NotSupportedError"

C3_Witness ==
    /\ Done
    /\ enable_validation
    /\ Len(arg.val) > LENGTH_LIMIT
    /\ validate(arg.val) # "ok"
    /\ ~AllIn(arg.val, SUPPORTED_CHARS \cup DOMAIN DAIJI_TRANS)
    /\ outcome.kind = "NotSupportedError"
    /\ ran = <<"type_check", "zero_case", "length_check">>

\* Some maximal run of digit symbols begins with k0.
HasZeroRun(str) ==
    \E i \in 1..Len(str) :
        str[i] = "k0" /\ (i = 1 \/ str[i - 1] \notin JAPANESE_DIGIT_CHARS)

\* C4: for a string other than the single k0 in which, after substitution,
\* some maximal run of digit symbols begins with k0, the call never returns a
\* value: it raises ParseError, unless the length check, validation or the
\* supported-character check has rejected the string before parse is called.
C4_ZeroRunRejected ==
    (Done /\ arg.isStr /\ arg.val # <<"k0">> /\ HasZeroRun(Sub)) =>
        \/ outcome.kind = "ParseError"
        \/ /\ outcome.kind \in {"NotSupportedError", "ValidationError"}
           /\ "parse" \notin Range(ran)

C4_Witness ==
    /\ Done
    /\ enable_validation
    /\ arg.val = <<"daiji10", "k0">>
    /\ "parse" \in Range(ran)
    /\ outcome.kind = "ParseError"

UnitIndex(unit_str) == (CHOOSE i \in 1..Len(UNITS) : UNITS[i].unit_str = unit_str)

\* The units are in descending arrangement: cho, oku, man at most once each and
\* in this order; between them sen, hyaku, ju at most once each and in this
\* order.
Descending(str) ==
    \A i, j \in 1..Len(str) :
        (i < j /\ str[i] \in UNIT_CHARS /\ str[j] \in UNIT_CHARS) =>
            /\ (str[i] \in MYRIAD_CHARS /\ str[j] \in MYRIAD_CHARS)
                 => UnitIndex(str[i]) < UnitIndex(str[j])
            /\ ( /\ str[i] \in PLACE_CHARS
                 /\ str[j] \in PLACE_CHARS
                 /\ \A k \in i..j : str[k] \notin MYRIAD_CHARS )
                 => UnitIndex(str[i]) < UnitIndex(str[j])

C6_WithinInt64 ==
    (Done /\ outcome.kind = "value" /\ Len(arg.val) <= LENGTH_LIMIT) =>
        Leq(outcome.value, INT64_MAX)

\* C6, amended: every value returned for a string of at most 5 characters lies
\* between 0 and 2^63 - 1 (longer strings can return more).
C6_WithinInt64UpTo5 ==
    (Done /\ outcome.kind = "value" /\ Len(arg.val) <= 5) =>
        Leq(outcome.value, INT64_MAX)

C6_Witness ==
    /\ Done
    /\ arg.val = <<"k9", "k9", "k9", "sen", "cho">>
    /\ outcome.kind = "value"
    /\ outcome.value = <<9, 9, 9>> \o Zeros(15)

\* parse is about to run its body in positional-digit mode.
InPositional ==
    /\ pc = "in_parse"
    /\ stack # <<>>
    /\ Top.at = "body"
    /\ Top.index >= Len(UNITS)

LeadingZeroRaised == outcome.kind = "ParseError" /\ outcome.msg = "leading zero"

\* C7 as stated: in positional-digit mode the leading-zero failure is raised
\* exactly when the string begins with k0 and is longer than one character; the
\* single k0 is accepted there with the value 0.
C7_LeadingZeroLongOnly ==
    [][InPositional =>
        /\ LeadingZeroRaised' <=> (Len(Top.s) > 1 /\ Top.s[1] = "k0")
        /\ Top.s = <<"k0">> => ret' = Returned(<<>>)]_vars

\* C7, amended: in positional-digit mode the leading-zero failure is raised
\* exactly when the string begins with k0, whatever its length; the single k0
\* that reaches this mode is rejected too.
C7_LeadingZeroAnyLength ==
    [][InPositional =>
        (LeadingZeroRaised' <=> (Len(Top.s) >= 1 /\ Top.s[1] = "k0"))]_vars

C7_Witness ==
    /\ Done
    /\ arg.val = <<"sen", "k0">>
    /\ LeadingZeroRaised

\* C8: with both options enabled a numeral written with daiji has the same
\* outcome (the same value, or a failure of the same kind) as its standard
\* spelling.
C8_DaijiSameOutcome ==
    (Done /\ prev # NoOutcome) =>
        (outcome.kind = prev.kind /\ outcome.value = prev.value)

\* Every unit decomposition parse completed is in place-value form: the
\* coefficient of man, oku, cho is between 1 and 9999, the digits in front of
\* sen, hyaku, ju are a single digit, and the remainder after a unit is below
\* the unit's magnitude.
PlaceValueForm ==
    \A i \in 1..Len(splits) :
        LET e == splits[i]
            exp == UNITS[UnitIndex(e.unit_str)].exp
        IN  /\ e.unit_str \in MYRIAD_CHARS =>
                   (e.left # <<>> /\ (Len(e.product) - exp) \in 1..4)
            /\ e.unit_str \in PLACE_CHARS => Len(e.left) <= 1
            /\ Len(e.rest) <= exp

\* Every maximal run of two or more digit symbols has at most four digits and
\* stands neither directly after nor directly in front of sen, hyaku or ju.
RunsInPlace(str) ==
    \A i, j \in 1..Len(str) :
        ( /\ i < j
          /\ \A k \in i..j : str[k] \in JAPANESE_DIGIT_CHARS
          /\ (i = 1 \/ str[i - 1] \notin JAPANESE_DIGIT_CHARS)
          /\ (j = Len(str) \/ str[j + 1] \notin JAPANESE_DIGIT_CHARS) )
        => /\ j - i + 1 <= 4
           /\ (i = 1 \/ str[i - 1] \notin PLACE_CHARS)
           /\ (j = Len(str) \/ str[j + 1] \notin PLACE_CHARS)

IsSubstring(a, b) ==
    \E i \in 1..(Len(b) + 1), j \in 0..Len(b) : a = SubSeq(b, i, j)

\* Every call on the stack was made by the one below it, on a substring of its
\* string and with a strictly larger index: index + 1, or 3 from cho, oku, man,
\* or 6 from sen, hyaku, ju; at most 7 calls are nested.
NestingBounded ==
    /\ Len(stack) <= Len(UNITS) + 1
    /\ \A k \in 1..Len(stack) : stack[k].index \in 0..Len(UNITS)
    /\ \A k \in 2..Len(stack) :
          LET caller == stack[k - 1]
              callee == stack[k]
          IN  /\ callee.index > caller.index
              /\ IsSubstring(callee.s, caller.s)
              /\ \/ callee.index = caller.index + 1
                 \/ callee.index = 3 /\ caller.index \in 0..2
                 \/ callee.index = 6 /\ caller.index \in 3..5

\* C10: every call parse(s, i) with 0 <= i <= 6 terminates (it is never stuck
\* before it ends), with an integer or with ParseError; its recursive calls are
\* on substrings with strictly larger indexes, so no more than 7 calls are ever
\* nested.
C10_ParseTerminates ==
    /\ NestingBounded
    /\ Done \/ ENABLED NextParse
    /\ Done => (stack = <<>> /\ outcome.kind \in {"value", "ParseError"})

\* Every call of parse ends, whatever it ends with (under SpecParse).
ParseEnds == <>Done

C10_Witness ==
    /\ Len(stack) = Len(UNITS) + 1
    /\ stack[1].index = 0
    /\ Len(stack[1].s) = MaxParseLen

====
